---- MODULE Spec2Model ----
\* Domain Monitor JS agents (slot603 / netpro): one reporting cycle is one
\* activation of executeAgent; cycles are started by the load trigger and by
\* the periodic timer, and each awaits its fetch calls on the page's event loop.
EXTENDS Naturals, Sequences, FiniteSets, TLC

\* ---------------------------------------------------------------- bounds
\* timer firings modelled per page
MaxFirings == 1
\* the wall clock runs over 0..MaxTime
MaxTime == 1

\* ------------------------------------------------------- configuration
Agents == <<"slot603", "netpro">>

AgentIds == 1..Len(Agents)

CONFIG ==
  [a \in AgentIds |->
     [brand       |-> Agents[a],
      apiKey      |-> IF a = 1 THEN "SLOT603-KEY" ELSE "NETPRO-KEY",
      apiUrl      |-> "https://www.dewipemikat.com/api/report",
      localApiUrl |-> "http://localhost:8000/api/report",
      expired     |-> "2025-08-01",
      status      |-> "aktif",
      kategori    |-> "normal"]]

\* ------------------------------------------------------------ environment
Hostnames == {"example.com", "shop.test"}

\* what a fetch call can settle with: an HTTP status, or a rejection
Statuses == {200, 500}

\* the rejection of a fetch promise (network, DNS, CORS failure): no status
TransportError == [type |-> "rejected", status |-> 0]

Settlements == [type : {"response"}, status : Statuses] \cup {TransportError}

\* Response.ok: the status is in the range 200-299
ResponseOk(resp) == resp.status >= 200 /\ resp.status <= 299

VARIABLES
  page,         \* the agent scripts the page includes, in document order
  readyState,   \* document.readyState
  dclFired,     \* DOMContentLoaded has been dispatched
  hostname,     \* window.location.hostname
  now,          \* the wall clock read by new Date()
  scriptPc,     \* index of the next IIFE of the file to run
  listener,     \* listener[a]: executeAgent of a is registered for DOMContentLoaded
  timerSet,     \* timerSet[a]: the interval timer of a is active
  firings,      \* firings[a]: firings of a's interval timer so far
  cycles        \* cycles[a]: the activations of a's executeAgent, in start order

vars == <<page, readyState, dclFired, hostname, now, scriptPc, listener, timerSet,
          firings, cycles>>

\* ------------------------------------------------------------- functions
getCurrentDomain == hostname

\* Date.prototype.toISOString, over the model's clock
toISOString(t) == <<"ISO-8601", t>>

\* generateReportData reading a CONFIG that the scripts of the page share (no
\* IIFE around them): the configuration of the script that ran last
generateReportData_GlobalConfig(a) ==
  LET owner == IF scriptPc > Len(page) THEN page[Len(page)] ELSE a
  IN [brand    |-> CONFIG[owner].brand,
      domain   |-> getCurrentDomain,
      expired  |-> CONFIG[owner].expired,
      status   |-> CONFIG[owner].status,
      kategori |-> CONFIG[owner].kategori,
      catatan  |-> <<"Report from JS Agent - ", toISOString(now)>>,
      api_key  |-> CONFIG[owner].apiKey]

\* generateReportData with status and kategori exchanged
generateReportData_Swapped(a) ==
  [brand    |-> CONFIG[a].brand,
   domain   |-> getCurrentDomain,
   expired  |-> CONFIG[a].expired,
   status   |-> CONFIG[a].kategori,
   kategori |-> CONFIG[a].status,
   catatan  |-> <<"Report from JS Agent - ", toISOString(now)>>,
   api_key  |-> CONFIG[a].apiKey]

generateReportData(a) ==
  [brand    |-> CONFIG[a].brand,
   domain   |-> getCurrentDomain,
   expired  |-> CONFIG[a].expired,
   status   |-> CONFIG[a].status,
   kategori |-> CONFIG[a].kategori,
   catatan  |-> <<"Report from JS Agent - ", toISOString(now)>>,
   api_key  |-> CONFIG[a].apiKey]

\* JSON.stringify of a report: the members in property order
JSONstringify(data) ==
  << <<"brand", data.brand>>, <<"domain", data.domain>>,
     <<"expired", data.expired>>, <<"status", data.status>>,
     <<"kategori", data.kategori>>, <<"catatan", data.catatan>>,
     <<"api_key", data.api_key>> >>

\* sendReport up to its await: the fetch call it issues
SendReportCall(data, apiUrl) ==
  [url    |-> apiUrl,
   method |-> "POST",
   body   |-> JSONstringify(data)]

\* sendReport without its catch clause: a rejected fetch escapes
SendReportReturn_NoCatch(a, apiUrl, resp) ==
  IF resp.type = "rejected"
    THEN [ret |-> FALSE, threw |-> TRUE,
          log |-> [level |-> "error", brand |-> CONFIG[a].brand,
                   msg |-> "Uncaught (in promise)", url |-> apiUrl]]
    ELSE IF ResponseOk(resp)
      THEN [ret |-> TRUE, threw |-> FALSE,
            log |-> [level |-> "log", brand |-> CONFIG[a].brand,
                     msg |-> "Report sent successfully to", url |-> apiUrl]]
      ELSE [ret |-> FALSE, threw |-> FALSE,
            log |-> [level |-> "warn", brand |-> CONFIG[a].brand,
                     msg |-> "Failed to send report to", url |-> apiUrl]]

\* sendReport without the response.ok test: any response counts as sent
SendReportReturn_AnyResponse(a, apiUrl, resp) ==
  IF resp.type = "rejected"
    THEN [ret |-> FALSE, threw |-> FALSE,
          log |-> [level |-> "error", brand |-> CONFIG[a].brand,
                   msg |-> "Error sending report to", url |-> apiUrl]]
    ELSE [ret |-> TRUE, threw |-> FALSE,
          log |-> [level |-> "log", brand |-> CONFIG[a].brand,
                   msg |-> "Report sent successfully to", url |-> apiUrl]]

\* sendReport after its await: what it logs and returns for a settled fetch
SendReportReturn(a, apiUrl, resp) ==
  IF resp.type = "rejected"
    THEN [ret |-> FALSE, threw |-> FALSE,
          log |-> [level |-> "error", brand |-> CONFIG[a].brand,
                   msg |-> "Error sending report to", url |-> apiUrl]]
    ELSE IF ResponseOk(resp)
      THEN [ret |-> TRUE, threw |-> FALSE,
            log |-> [level |-> "log", brand |-> CONFIG[a].brand,
                     msg |-> "Report sent successfully to", url |-> apiUrl]]
      ELSE [ret |-> FALSE, threw |-> FALSE,
            log |-> [level |-> "warn", brand |-> CONFIG[a].brand,
                     msg |-> "Failed to send report to", url |-> apiUrl]]

LogLine(a, level, msg) ==
  [level |-> level, brand |-> CONFIG[a].brand, msg |-> msg, url |-> ""]

\* the final test with its branches exchanged
FinalLog_Inverted(a, success) ==
  IF ~success
    THEN LogLine(a, "log", "Domain monitoring report completed successfully")
    ELSE LogLine(a, "error", "Failed to send report to any API endpoint")

\* the last lines of executeAgent: the cycle-level outcome
FinalLog(a, success) ==
  IF success
    THEN LogLine(a, "log", "Domain monitoring report completed successfully")
    ELSE LogLine(a, "error", "Failed to send report to any API endpoint")

\* the fallback tried whatever the primary returned
NeedsFallback_Always(c, success) == c.pc = "AttemptingPrimary"

\* the fallback tried again for as long as a delivery fails
NeedsFallback_Retry(c, success) == ~success

\* if (!success) after the primary sendReport of the cycle has returned
NeedsFallback(c, success) == c.pc = "AttemptingPrimary" /\ ~success

\* a record built anew for the fallback
FallbackReport_Rebuilt(a, c) ==
  [reportData |-> generateReportData(a), built |-> c.built + 1]

\* reportData kept in one variable of the IIFE, shared by its activations:
\* the fallback sends what the latest activation built
FallbackReport_Shared(a, c) ==
  [reportData |-> cycles[a][Len(cycles[a])].reportData, built |-> c.built]

\* the record handed to the fallback sendReport: the reportData constant of
\* the activation, with the number of records the activation has built
FallbackReport(a, c) == [reportData |-> c.reportData, built |-> c.built]

\* executeAgent trying the local API first
ExecuteAgentStart_LocalFirst(a, trig) ==
  LET reportData == generateReportData(a)
  IN [trigger    |-> trig,
      pc         |-> "AttemptingPrimary",
      reportData |-> reportData,
      built      |-> 1,
      calls      |-> <<SendReportCall(reportData, CONFIG[a].localApiUrl)>>,
      results    |-> <<>>,
      log        |-> <<LogLine(a, "log", "Domain Monitor Agent starting..."),
                       LogLine(a, "log", "Generated report data:")>>]

\* executeAgent issuing both sendReport calls before awaiting either
ExecuteAgentStart_Parallel(a, trig) ==
  LET reportData == generateReportData(a)
  IN [trigger    |-> trig,
      pc         |-> "AttemptingPrimary",
      reportData |-> reportData,
      built      |-> 1,
      calls      |-> <<SendReportCall(reportData, CONFIG[a].apiUrl),
                       SendReportCall(reportData, CONFIG[a].localApiUrl)>>,
      results    |-> <<>>,
      log        |-> <<LogLine(a, "log", "Domain Monitor Agent starting..."),
                       LogLine(a, "log", "Generated report data:")>>]

\* executeAgent remembering the endpoint that worked: after a cycle that got
\* through on the local API only, the next cycle starts there
ExecuteAgentStart_Sticky(a, trig) ==
  LET reportData == generateReportData(a)
      n          == Len(cycles[a])
      viaLocal   == /\ n > 0
                    /\ Len(cycles[a][n].results) = 2
                    /\ ResponseOk(cycles[a][n].results[2])
  IN [trigger    |-> trig,
      pc         |-> "AttemptingPrimary",
      reportData |-> reportData,
      built      |-> 1,
      calls      |-> <<SendReportCall(reportData,
                                      IF viaLocal THEN CONFIG[a].localApiUrl
                                                  ELSE CONFIG[a].apiUrl)>>,
      results    |-> <<>>,
      log        |-> <<LogLine(a, "log", "Domain Monitor Agent starting..."),
                       LogLine(a, "log", "Generated report data:")>>]

\* executeAgent up to its first await
ExecuteAgentStart(a, trig) ==
  LET reportData == generateReportData(a)
  IN [trigger    |-> trig,
      pc         |-> "AttemptingPrimary",
      reportData |-> reportData,
      built      |-> 1,
      calls      |-> <<SendReportCall(reportData, CONFIG[a].apiUrl)>>,
      results    |-> <<>>,
      log        |-> <<LogLine(a, "log", "Domain Monitor Agent starting..."),
                       LogLine(a, "log", "Generated report data:")>>]

\* executeAgent from the settlement of its outstanding fetch to its next await
\* or its return
ExecuteAgentResume(a, c, resp) ==
  LET r       == SendReportReturn(a, c.calls[Len(c.results) + 1].url, resp)
      settled == [c EXCEPT !.results = Append(@, resp),
                           !.log = Append(@, r.log)]
  IN IF r.threw
       THEN [settled EXCEPT !.pc = "Rejected"]
       ELSE IF NeedsFallback(c, r.ret)
         THEN [settled EXCEPT
                 !.pc = "AttemptingFallback",
                 !.log = Append(@, LogLine(a, "log", "Trying local API as fallback...")),
                 !.built = FallbackReport(a, c).built,
                 !.calls = Append(@, SendReportCall(FallbackReport(a, c).reportData,
                                                    CONFIG[a].localApiUrl))]
         ELSE [settled EXCEPT
                 !.pc = "Done",
                 !.log = Append(@, FinalLog(a, r.ret))]

\* ---------------------------------------------------------------- states
\* the state in which the first agent script of the page starts to run
InitOn(pages) ==
  /\ page \in pages
  /\ readyState \in {"loading", "interactive", "complete"}
  /\ dclFired \in BOOLEAN
  /\ readyState = "loading" => ~dclFired
  /\ readyState = "complete" => dclFired
  /\ hostname \in Hostnames
  /\ now = 0
  /\ scriptPc = 1
  /\ listener = [a \in AgentIds |-> FALSE]
  /\ timerSet = [a \in AgentIds |-> FALSE]
  /\ firings = [a \in AgentIds |-> 0]
  /\ cycles = [a \in AgentIds |-> <<>>]

\* a page that includes the script of one brand
Init == InitOn({<<a>> : a \in AgentIds})

ScriptDone == scriptPc > Len(page)

\* the IIFE testing readyState against 'complete' instead of 'loading'
RunScript_UntilComplete(a) ==
  /\ ~ScriptDone
  /\ page[scriptPc] = a
  /\ scriptPc' = scriptPc + 1
  /\ IF readyState # "complete"
       THEN /\ listener' = [listener EXCEPT ![a] = TRUE]
            /\ cycles' = cycles
       ELSE /\ cycles' = [cycles EXCEPT ![a] = Append(@, ExecuteAgentStart(a, "load"))]
            /\ listener' = listener
  /\ timerSet' = [timerSet EXCEPT ![a] = TRUE]
  /\ UNCHANGED <<page, readyState, dclFired, hostname, now, firings>>

\* the body of one IIFE: register or run the load trigger, then set the timer
RunScript(a) ==
  /\ ~ScriptDone
  /\ page[scriptPc] = a
  /\ scriptPc' = scriptPc + 1
  /\ IF readyState = "loading"
       THEN /\ listener' = [listener EXCEPT ![a] = TRUE]
            /\ cycles' = cycles
       ELSE /\ cycles' = [cycles EXCEPT ![a] = Append(@, ExecuteAgentStart(a, "load"))]
            /\ listener' = listener
  /\ timerSet' = [timerSet EXCEPT ![a] = TRUE]
  /\ UNCHANGED <<page, readyState, dclFired, hostname, now, firings>>

\* the parser reaches the end of the document
ParseEnd ==
  /\ ScriptDone
  /\ readyState = "loading"
  /\ readyState' = "interactive"
  /\ UNCHANGED <<page, dclFired, hostname, now, scriptPc, listener, timerSet, firings, cycles>>

\* the dispatch of DOMContentLoaded: every registered listener runs
DOMContentLoaded ==
  /\ ScriptDone
  /\ readyState = "interactive"
  /\ ~dclFired
  /\ dclFired' = TRUE
  /\ cycles' = [a \in AgentIds |->
                  IF listener[a] THEN Append(cycles[a], ExecuteAgentStart(a, "load"))
                                 ELSE cycles[a]]
  /\ UNCHANGED <<page, readyState, hostname, now, scriptPc, listener, timerSet, firings>>

\* a timer that skips a firing while a cycle of the agent is in flight
TimerLive_WhenIdle(a) ==
  /\ timerSet[a]
  /\ \A i \in 1..Len(cycles[a]) : cycles[a][i].pc = "Done"

\* the timer firings of the page so far
PageFirings == firings[1] + firings[2]

\* the interval timer of a is live: set, and never cleared afterwards
TimerLive(a) == timerSet[a]

\* a firing that aborts the cycles of the agent still in flight
TimerFire_AbortsPrevious(a) ==
  /\ ScriptDone
  /\ TimerLive(a)
  /\ PageFirings < MaxFirings
  /\ firings' = [firings EXCEPT ![a] = @ + 1]
  /\ cycles' = [cycles EXCEPT ![a] =
                  Append([i \in 1..Len(@) |->
                            IF @[i].pc = "Done" THEN @[i]
                                                ELSE [@[i] EXCEPT !.pc = "Aborted"]],
                         ExecuteAgentStart(a, "timer"))]
  /\ UNCHANGED <<page, readyState, dclFired, hostname, now, scriptPc, listener, timerSet>>

\* a firing of the interval timer set by setInterval(executeAgent, 30 min)
TimerFire(a) ==
  /\ ScriptDone
  /\ TimerLive(a)
  /\ PageFirings < MaxFirings
  /\ firings' = [firings EXCEPT ![a] = @ + 1]
  /\ cycles' = [cycles EXCEPT ![a] = Append(@, ExecuteAgentStart(a, "timer"))]
  /\ UNCHANGED <<page, readyState, dclFired, hostname, now, scriptPc, listener, timerSet>>

\* the outstanding fetch of cycle i of agent a settles with resp
FetchSettles(a, i, resp) ==
  /\ ScriptDone
  /\ i \in 1..Len(cycles[a])
  /\ Len(cycles[a][i].results) < Len(cycles[a][i].calls)
  /\ cycles[a][i].pc \in {"AttemptingPrimary", "AttemptingFallback"}
  /\ cycles' = [cycles EXCEPT ![a][i] = ExecuteAgentResume(a, @, resp)]
  /\ UNCHANGED <<page, readyState, dclFired, hostname, now, scriptPc, listener, timerSet, firings>>

\* the wall clock advances
Tick ==
  /\ now < MaxTime
  /\ now' = now + 1
  /\ UNCHANGED <<page, readyState, dclFired, hostname, scriptPc, listener, timerSet, firings, cycles>>

Next ==
  \/ \E a \in AgentIds : RunScript(a)
  \/ ParseEnd
  \/ DOMContentLoaded
  \/ \E a \in AgentIds : TimerFire(a)
  \/ \E a \in AgentIds : \E i \in 1..(MaxFirings + 1) : \E resp \in Settlements :
       FetchSettles(a, i, resp)
  \/ Tick

Spec == Init /\ [][Next]_vars

\* the event loop runs the script to its end and fires a live timer; the
\* network owes nothing: a fetch may stay unsettled for ever
FairSpec ==
  /\ Spec
  /\ \A a \in AgentIds : WF_vars(RunScript(a)) /\ WF_vars(TimerFire(a))

\* a page that includes the scripts of both brands, as the source file does
PageInit == InitOn({<<1, 2>>}) /\ hostname = "example.com"

\* the tasks of the event loop; the wall clock stands still
PageNext ==
  \/ \E a \in AgentIds : RunScript(a)
  \/ ParseEnd
  \/ DOMContentLoaded
  \/ \E a \in AgentIds : TimerFire(a)
  \/ \E a \in AgentIds : \E i \in 1..(MaxFirings + 1) : \E resp \in Settlements :
       FetchSettles(a, i, resp)

PageSpec == PageInit /\ [][PageNext]_vars

\* the page of the specification's scenarios: slot603.js on example.com
ScenarioInit == InitOn({<<1>>}) /\ hostname = "example.com"

\* the script runs to its end, and the network settles every outstanding
\* fetch in the end; the timer owes nothing
NetFairSpec ==
  /\ ScenarioInit /\ [][Next]_vars
  /\ WF_vars(\E a \in AgentIds : RunScript(a))
  /\ \A a \in AgentIds : \A i \in 1..(MaxFirings + 1) :
        WF_vars(\E resp \in Settlements : FetchSettles(a, i, resp))

\* ------------------------------------------------------ cycle observers
\* the number of fetch calls of activation c to url
CallsTo(c, url) == Cardinality({k \in 1..Len(c.calls) : c.calls[k].url = url})

\* the k-th delivery of c has returned Success / has returned a failure
Succeeded(c, k) == k <= Len(c.results) /\ ResponseOk(c.results[k])

Failed(c, k) == k <= Len(c.results) /\ ~ResponseOk(c.results[k])

\* the lines sendReport wrote for url in the log of c
DeliveryLines(c, url) == {k \in 1..Len(c.log) : c.log[k].url = url}

LastLog(c) == c.log[Len(c.log)]

LoggedSuccess(c) ==
  LastLog(c).msg = "Domain monitoring report completed successfully"

LoggedFailure(c) ==
  LastLog(c).msg = "Failed to send report to any API endpoint"

InPage(a) == \E k \in 1..Len(page) : page[k] = a

\* the cycles of a started by the load trigger
LoadCycles(cs) == Cardinality({i \in 1..Len(cs) : cs[i].trigger = "load"})

\* the activation failed on both endpoints
FullyFailed(c) == c.pc = "Done" /\ Failed(c, 1) /\ Failed(c, 2)

\* the cycle-level outcome lines in the log of c
FinalLines(c) ==
  {k \in 1..Len(c.log) :
     c.log[k].msg \in {"Domain monitoring report completed successfully",
                       "Failed to send report to any API endpoint"}}

\* P holds of every activation of every agent
EveryCycle(P(_, _)) ==
  \A a \in AgentIds : \A i \in 1..Len(cycles[a]) : P(a, cycles[a][i])

SomeCycle(P(_, _)) ==
  \E a \in AgentIds : \E i \in 1..Len(cycles[a]) : P(a, cycles[a][i])

\* ---------------------------------------------------------------- claims
\* C1: every cycle calls sendReport with the primary URL exactly once, and
\* that call is the first call of the cycle, before any call with the
\* fallback URL, whatever the deliveries return.
C1_PrimaryOnceAndFirst ==
  LET P(a, c) ==
        /\ CallsTo(c, CONFIG[a].apiUrl) = 1
        /\ c.calls[1].url = CONFIG[a].apiUrl
        /\ \A k \in 2..Len(c.calls) : c.calls[k].url = CONFIG[a].localApiUrl
  IN EveryCycle(P)

C1_Witness ==
  LET P(a, c) ==
        /\ c.pc = "Done"
        /\ Len(c.calls) = 2
        /\ c.calls[1].url = CONFIG[a].apiUrl
        /\ c.calls[2].url = CONFIG[a].localApiUrl
  IN SomeCycle(P)

\* C2: when the primary delivery of a cycle has returned Success, the cycle
\* has made no call to the fallback URL, in any state up to and including
\* Done.
C2_NoFallbackAfterSuccess ==
  LET P(a, c) == Succeeded(c, 1) => CallsTo(c, CONFIG[a].localApiUrl) = 0
  IN EveryCycle(P)

C2_Witness ==
  LET P(a, c) ==
        /\ Succeeded(c, 1)
        /\ c.pc = "Done"
        /\ CallsTo(c, CONFIG[a].localApiUrl) = 0
  IN SomeCycle(P)

\* C3: when the primary delivery of a cycle has failed (HTTP status not ok,
\* or transport error), the cycle has called the fallback exactly once, with
\* a body equal to the body sent to the primary, timestamp included, also
\* when the clock advanced while the primary request was outstanding.
C3_FallbackOnceSameRecord ==
  LET P(a, c) ==
        Failed(c, 1) =>
          /\ CallsTo(c, CONFIG[a].localApiUrl) = 1
          /\ c.calls[2].url = CONFIG[a].localApiUrl
          /\ c.calls[2].method = c.calls[1].method
          /\ c.calls[2].body = c.calls[1].body
  IN EveryCycle(P)

C3_Witness ==
  LET P(a, c) ==
        /\ Failed(c, 1)
        /\ Len(c.calls) = 2
        /\ c.calls[2].body = c.calls[1].body
        /\ c.reportData.catatan[2] # toISOString(now)
  IN SomeCycle(P)

\* C4: the final line a cycle logs is the success line if and only if one
\* of its deliveries returned Success, and the failure line if and only if
\* the primary and the fallback both failed; primary 500 then fallback 200
\* logs success.
C4_FinalOutcome ==
  LET P(a, c) ==
        c.pc = "Done" =>
          /\ LoggedSuccess(c) <=> (Succeeded(c, 1) \/ Succeeded(c, 2))
          /\ LoggedFailure(c) <=> (Failed(c, 1) /\ Failed(c, 2))
          /\ LoggedSuccess(c) # LoggedFailure(c)
  IN EveryCycle(P)

C4_Witness ==
  LET P(a, c) ==
        /\ c.pc = "Done"
        /\ Len(c.results) = 2
        /\ c.results[1] = [type |-> "response", status |-> 500]
        /\ c.results[2] = [type |-> "response", status |-> 200]
        /\ LoggedSuccess(c)
  IN SomeCycle(P)

\* C5: no exception leaves executeAgent: no cycle ends rejected, a cycle
\* whose fetches have all settled is Done with a logged outcome (transport
\* errors on both endpoints included), and the timer of the agent stays set.
C5_NoEscape ==
  LET P(a, c) ==
        /\ c.pc # "Rejected"
        /\ Len(c.results) = Len(c.calls) =>
              c.pc = "Done" /\ (LoggedSuccess(c) \/ LoggedFailure(c))
        /\ TimerLive(a)
  IN EveryCycle(P)

C5_Witness ==
  LET P(a, c) ==
        /\ c.pc = "Done"
        /\ c.results = <<TransportError, TransportError>>
        /\ LoggedFailure(c)
        /\ firings[a] = 0
        /\ ENABLED TimerFire(a)
  IN SomeCycle(P)

\* C6: every sendReport call is one POST; it returns Success exactly when
\* the response is ok; a non-ok status and a transport error are each
\* logged once, as a failure, and each sends the cycle on to the fallback.
C6_DeliverOutcome ==
  LET P(a, c) ==
        /\ \A k \in 1..Len(c.calls) : c.calls[k].method = "POST"
        /\ Len(c.calls) <= Len(c.results) + 1
        /\ \A k \in 1..Len(c.results) :
              /\ Cardinality(DeliveryLines(c, c.calls[k].url)) = 1
              /\ \A l \in DeliveryLines(c, c.calls[k].url) :
                    (c.log[l].level = "log") <=> Succeeded(c, k)
        /\ Succeeded(c, 1) => c.pc = "Done" /\ Len(c.calls) = 1
        /\ Failed(c, 1) => Len(c.calls) = 2 /\ c.pc # "AttemptingPrimary"
        /\ Len(c.results) = 2 => c.pc = "Done"
  IN EveryCycle(P)

C6_Witness ==
  LET P(a, c) ==
        /\ c.pc = "Done"
        /\ c.results = <<[type |-> "response", status |-> 500], TransportError>>
        /\ Cardinality(DeliveryLines(c, CONFIG[a].apiUrl)) = 1
        /\ Cardinality(DeliveryLines(c, CONFIG[a].localApiUrl)) = 1
  IN SomeCycle(P)

\* C7: a cycle never has its primary and its fallback request outstanding
\* together: at most one fetch of a cycle is unsettled, and the fallback is
\* issued only after the primary has settled.
C7_Sequential ==
  LET P(a, c) ==
        /\ Len(c.calls) - Len(c.results) <= 1
        /\ CallsTo(c, CONFIG[a].localApiUrl) > 0 => Len(c.results) >= 1
  IN EveryCycle(P)

C7_Witness ==
  LET P(a, c) ==
        /\ c.pc = "AttemptingFallback"
        /\ Len(c.calls) = 2
        /\ Len(c.results) = 1
  IN SomeCycle(P)

\* C8: the load trigger starts exactly one cycle. A script that runs while
\* the document is loading registers the listener and starts no cycle; its
\* one load cycle starts at the dispatch of DOMContentLoaded. A script that
\* runs on a parsed document starts its one load cycle at once and registers
\* nothing.
C8_LoadTriggerOnce ==
  /\ [](\A a \in AgentIds :
          timerSet[a] =>
            LoadCycles(cycles[a]) = IF listener[a] /\ ~dclFired THEN 0 ELSE 1)
  /\ [][\A a \in AgentIds :
          ~timerSet[a] /\ timerSet'[a] =>
            IF readyState = "loading"
              THEN listener'[a] /\ LoadCycles(cycles'[a]) = 0
              ELSE ~listener'[a] /\ LoadCycles(cycles'[a]) = 1]_vars
  /\ [][\A a \in AgentIds :
          timerSet[a] /\ LoadCycles(cycles'[a]) # LoadCycles(cycles[a]) =>
            /\ listener[a] /\ ~dclFired /\ dclFired'
            /\ LoadCycles(cycles[a]) = 0
            /\ LoadCycles(cycles'[a]) = 1]_vars

C8_Witness ==
  \E a \in AgentIds :
    /\ listener[a]
    /\ dclFired
    /\ firings[a] = MaxFirings
    /\ LoadCycles(cycles[a]) = 1
    /\ cycles[a][Len(cycles[a])].trigger = "load"

C10_RetryOnlyByTimer ==
  /\ [](\A a \in AgentIds : \A i \in 1..Len(cycles[a]) :
          /\ cycles[a][i].built = 1
          /\ Len(cycles[a][i].calls) <= 2
          /\ CallsTo(cycles[a][i], CONFIG[a].apiUrl) <= 1
          /\ CallsTo(cycles[a][i], CONFIG[a].localApiUrl) <= 1)
  /\ [][\A a \in AgentIds : \A i \in 1..Len(cycles[a]) :
          cycles[a][i].pc = "Done" => cycles'[a][i] = cycles[a][i]]_vars
  /\ [][\A a \in AgentIds :
          /\ \E i \in 1..Len(cycles[a]) : FullyFailed(cycles[a][i])
          /\ Len(cycles'[a]) > Len(cycles[a])
          => /\ firings'[a] = firings[a] + 1
             /\ cycles'[a][Len(cycles'[a])].trigger = "timer"]_vars

\* C10, amended: as above, but the new cycle is started by a later firing of
\* the timer or, when the failed cycle was started by a firing that came
\* before the document was parsed, by the dispatch of DOMContentLoaded to
\* the registered listener.
C10_RetryOnlyByTrigger ==
  /\ [](\A a \in AgentIds : \A i \in 1..Len(cycles[a]) :
          /\ cycles[a][i].built = 1
          /\ Len(cycles[a][i].calls) <= 2
          /\ CallsTo(cycles[a][i], CONFIG[a].apiUrl) <= 1
          /\ CallsTo(cycles[a][i], CONFIG[a].localApiUrl) <= 1)
  /\ [][\A a \in AgentIds : \A i \in 1..Len(cycles[a]) :
          cycles[a][i].pc = "Done" => cycles'[a][i] = cycles[a][i]]_vars
  /\ [][\A a \in AgentIds :
          /\ \E i \in 1..Len(cycles[a]) : FullyFailed(cycles[a][i])
          /\ Len(cycles'[a]) > Len(cycles[a])
          => /\ Len(cycles'[a]) = Len(cycles[a]) + 1
             /\ \/ /\ firings'[a] = firings[a] + 1
                   /\ cycles'[a][Len(cycles'[a])].trigger = "timer"
                \/ /\ firings'[a] = firings[a]
                   /\ listener[a] /\ ~dclFired /\ dclFired'
                   /\ \A i \in 1..Len(cycles[a]) : cycles[a][i].trigger = "timer"
                   /\ cycles'[a][Len(cycles'[a])].trigger = "load"]_vars

C10_Witness ==
  \E a \in AgentIds :
    /\ Len(cycles[a]) = 2
    /\ FullyFailed(cycles[a][1])
    /\ cycles[a][1].built = 1
    /\ cycles[a][2].trigger = "timer"
    /\ Len(cycles[a][2].calls) = 2

\* C11: the record generateReportData returns carries brand, expired,
\* status, kategori and api_key of the agent's CONFIG unchanged, and as
\* domain the hostname of the page; the same values are in the body of
\* every request of the cycle.
C11_ReportFields ==
  LET P(a, c) ==
        /\ c.reportData.brand = CONFIG[a].brand
        /\ c.reportData.expired = CONFIG[a].expired
        /\ c.reportData.status = CONFIG[a].status
        /\ c.reportData.kategori = CONFIG[a].kategori
        /\ c.reportData.api_key = CONFIG[a].apiKey
        /\ c.reportData.domain = hostname
        /\ \A k \in 1..Len(c.calls) :
              c.calls[k].body =
                << <<"brand", CONFIG[a].brand>>, <<"domain", hostname>>,
                   <<"expired", CONFIG[a].expired>>, <<"status", CONFIG[a].status>>,
                   <<"kategori", CONFIG[a].kategori>>,
                   <<"catatan", c.reportData.catatan>>,
                   <<"api_key", CONFIG[a].apiKey>> >>
  IN EveryCycle(P)

C11_Witness ==
  LET P(a, c) ==
        /\ hostname = "shop.test"
        /\ c.reportData.domain = "shop.test"
        /\ c.reportData.brand = "netpro"
        /\ c.reportData.api_key = "NETPRO-KEY"
        /\ c.reportData.status = "aktif"
        /\ c.reportData.kategori = "normal"
        /\ c.reportData.expired = "2025-08-01"
  IN SomeCycle(P)

\* C12: cycles of an agent overlap freely and do not touch each other: every
\* request of a cycle carries the record that cycle built, the calls and the
\* position of a cycle are determined by its own results alone, and a step
\* that starts or resumes one cycle leaves every other cycle as it was.
C12_CyclesIndependent ==
  /\ [](\A a \in AgentIds : \A i \in 1..Len(cycles[a]) :
          LET c == cycles[a][i]
          IN /\ \A k \in 1..Len(c.calls) : c.calls[k].body = JSONstringify(c.reportData)
             /\ Len(c.results) = 0 => c.pc = "AttemptingPrimary" /\ Len(c.calls) = 1
             /\ Succeeded(c, 1) => c.pc = "Done" /\ Len(c.calls) = 1
             /\ Failed(c, 1) /\ Len(c.results) = 1 =>
                   c.pc = "AttemptingFallback" /\ Len(c.calls) = 2
             /\ Len(c.results) = 2 => c.pc = "Done" /\ Len(c.calls) = 2)
  /\ [][\A a \in AgentIds : \A i, j \in 1..Len(cycles[a]) :
          i # j /\ cycles'[a][i] # cycles[a][i] => cycles'[a][j] = cycles[a][j]]_vars
  /\ [][\A a \in AgentIds :
          /\ Len(cycles'[a]) >= Len(cycles[a])
          /\ Len(cycles'[a]) > Len(cycles[a]) =>
                SubSeq(cycles'[a], 1, Len(cycles[a])) = cycles[a]]_vars

C12_Witness ==
  \E a \in AgentIds :
    /\ Len(cycles[a]) = 2
    /\ cycles[a][1].pc = "AttemptingFallback"
    /\ cycles[a][2].trigger = "timer"
    /\ cycles[a][2].pc = "AttemptingFallback"
    /\ cycles[a][1].reportData # cycles[a][2].reportData
    /\ cycles[a][1].calls[2].body = JSONstringify(cycles[a][1].reportData)
    /\ cycles[a][2].calls[2].body = JSONstringify(cycles[a][2].reportData)

\* C13: on a network that settles every fetch, every started cycle reaches
\* Done; a cycle has logged one final outcome, as its last line, when it is
\* Done and none before; and nothing cancels a cycle: it stays in place and
\* changes only by the settlement of its own outstanding fetch. (A started
\* cycle stays started and a Done cycle stays Done, by the last conjunct, so
\* "started leads to Done" is "again and again: not started, or Done".)
C13_CycleTerminates ==
  /\ \A a \in AgentIds : \A i \in 1..(MaxFirings + 1) :
        []<>(i <= Len(cycles[a]) => cycles[a][i].pc = "Done")
  /\ [](\A a \in AgentIds : \A i \in 1..Len(cycles[a]) :
          LET c == cycles[a][i]
          IN /\ c.pc \in {"AttemptingPrimary", "AttemptingFallback", "Done"}
             /\ c.pc = "Done" => FinalLines(c) = {Len(c.log)}
             /\ c.pc # "Done" => FinalLines(c) = {})
  /\ [][\A a \in AgentIds : \A i \in 1..Len(cycles[a]) :
          /\ i <= Len(cycles'[a])
          /\ cycles'[a][i] # cycles[a][i] =>
                /\ cycles[a][i].pc # "Done"
                /\ Len(cycles'[a][i].results) = Len(cycles[a][i].results) + 1]_vars

C13_Witness ==
  \E a \in AgentIds :
    /\ Len(cycles[a]) = MaxFirings + 1
    /\ \A i \in 1..Len(cycles[a]) :
          /\ cycles[a][i].pc = "Done"
          /\ FinalLines(cycles[a][i]) = {Len(cycles[a][i].log)}
    /\ LoggedFailure(cycles[a][1])
    /\ LoggedSuccess(cycles[a][Len(cycles[a])])

\* C14: nothing of a cycle survives into the next: whatever the earlier
\* cycles of the agent did, a cycle that starts has built one record, stamped
\* with the time of its start, has no result yet, and has issued one request,
\* to the primary URL, carrying that record.
C14_FreshStart ==
  [][\A a \in AgentIds :
       Len(cycles'[a]) > Len(cycles[a]) =>
         LET c == cycles'[a][Len(cycles'[a])]
         IN /\ c.pc = "AttemptingPrimary"
            /\ c.built = 1
            /\ c.results = <<>>
            /\ c.reportData.catatan = <<"Report from JS Agent - ", toISOString(now)>>
            /\ c.reportData.domain = hostname
            /\ Len(c.calls) = 1
            /\ c.calls[1].url = CONFIG[a].apiUrl
            /\ c.calls[1].body = JSONstringify(c.reportData)]_vars

C14_Witness ==
  \E a \in AgentIds :
    /\ Len(cycles[a]) = 2
    /\ cycles[a][1].pc = "Done"
    /\ Failed(cycles[a][1], 1)
    /\ Succeeded(cycles[a][1], 2)
    /\ cycles[a][2].pc = "AttemptingPrimary"
    /\ cycles[a][2].calls[1].url = CONFIG[a].apiUrl
    /\ cycles[a][2].reportData.catatan # cycles[a][1].reportData.catatan

\* C15: in a page with both agents, every request and every log line of an
\* agent carries the brand and the api_key of that agent's own CONFIG; the
\* calls and the position of each cycle are determined by its own results;
\* which fetch may settle and which timer may fire does not depend on any
\* delivery outcome; and a step that settles a fetch of one agent leaves the
\* cycles, the listener and the timer of the other agent as they were.
C15_AgentsIsolated ==
  /\ [](\A a \in AgentIds : \A i \in 1..Len(cycles[a]) :
          LET c == cycles[a][i]
          IN /\ \A k \in 1..Len(c.calls) :
                   /\ c.calls[k].body[1] = <<"brand", Agents[a]>>
                   /\ c.calls[k].body[7] = <<"api_key", CONFIG[a].apiKey>>
                   /\ \A b \in AgentIds \ {a} :
                         /\ c.calls[k].body[1][2] # CONFIG[b].brand
                         /\ c.calls[k].body[7][2] # CONFIG[b].apiKey
             /\ \A k \in 1..Len(c.log) : c.log[k].brand = Agents[a]
             /\ Len(c.results) = 0 => c.pc = "AttemptingPrimary" /\ Len(c.calls) = 1
             /\ Succeeded(c, 1) => c.pc = "Done" /\ Len(c.calls) = 1
             /\ Failed(c, 1) => Len(c.calls) = 2
             /\ Len(c.calls) = 2 =>
                   /\ c.calls[1].url = CONFIG[a].apiUrl
                   /\ c.calls[2].url = CONFIG[a].localApiUrl
             /\ \A resp \in Settlements :
                   ENABLED FetchSettles(a, i, resp) <=>
                     (ScriptDone /\ Len(c.results) < Len(c.calls)))
  /\ [](\A a \in AgentIds :
          ENABLED TimerFire(a) <=>
            (ScriptDone /\ timerSet[a] /\ PageFirings < MaxFirings))
  /\ [][\A a, b \in AgentIds :
          /\ a # b
          /\ \E i \in 1..Len(cycles[a]) :
                Len(cycles'[a][i].results) > Len(cycles[a][i].results)
          => /\ cycles'[b] = cycles[b]
             /\ firings'[b] = firings[b]
             /\ listener'[b] = listener[b]
             /\ timerSet'[b] = timerSet[b]]_vars

C15_Witness ==
  /\ page = <<1, 2>>
  /\ Len(cycles[1]) = 2
  /\ Len(cycles[2]) = 1
  /\ FullyFailed(cycles[1][1])
  /\ cycles[1][2].trigger = "timer"
  /\ cycles[1][2].calls[1].body[1] = <<"brand", "slot603">>
  /\ cycles[1][2].calls[1].body[7] = <<"api_key", "SLOT603-KEY">>
  /\ cycles[2][1].pc = "Done"
  /\ Succeeded(cycles[2][1], 1)
  /\ cycles[2][1].calls = <<SendReportCall(cycles[2][1].reportData, CONFIG[2].apiUrl)>>
  /\ cycles[2][1].calls[1].body[1] = <<"brand", "netpro">>
  /\ cycles[2][1].calls[1].body[7] = <<"api_key", "NETPRO-KEY">>

====
